---- MODULE Spec2Model ----
(***************************************************************************)
(* Maze-solving robot: the wall grid (maze.py), the reference agent        *)
(* (robot.py) and the two-run test harness (tester.py).                    *)
(*                                                                         *)
(* A maze is a record [dim, walls]; walls[x+1][y+1] is the 4-bit code of   *)
(* cell (x, y) (self.walls[x, y] in the source, a numpy array).  A cell is *)
(* a pair <<x, y>>.  Headings and directions are the source's strings.     *)
(* The agent's movement is an integer and its answer is either a pair of   *)
(* integers or the pair ('Reset', 'Reset').                                *)
(***************************************************************************)
EXTENDS Integers, Sequences, FiniteSets, TLC

VARIABLES
    pc,              \* position in run_simulation
    maze_filename,   \* the argument of run_simulation: names a file of Files
    maze,            \* the Maze object: [dim, walls]
    wall_errors,     \* _validate_maze's list of inconsistent edges
    run_number,      \* the for loop's variable (2 once the loop is over)
    robot_position,  \* ground truth: [location |-> <<x, y>>, heading |-> h]
    total_time,      \* per-run step counter
    goal_reached,    \* per-run flag
    runtimes,        \* list of recorded runtimes
    final_score,     \* <<numerator, denominator>> once printed, else <<>>
    outcomes,        \* how each run ended, as printed
    trace,           \* what the last loop iteration did
    robot            \* the Robot object: [heading, location, visited]

vars == <<pc, maze_filename, maze, wall_errors, run_number, robot_position, total_time,
          goal_reached, runtimes, final_score, outcomes, trace, robot>>

----------------------------------------------------------------------------
(* Bounds of the model *)

\* Step cap per run.  The source sets MAX_TIME = 1000 (tester.py:22); the
\* model runs the same loop under a small cap.
MAX_TIME == 4

\* The agent's requested movement ranges over -MaxMove .. MaxMove.
MaxMove == 4

----------------------------------------------------------------------------
(* tester.py: the global direction tables *)

DIRECTION_SENSORS ==
    [u |-> <<"l", "u", "r">>, r |-> <<"u", "r", "d">>,
     d |-> <<"r", "d", "l">>, l |-> <<"d", "l", "u">>,
     up |-> <<"l", "u", "r">>, right |-> <<"u", "r", "d">>,
     down |-> <<"r", "d", "l">>, left |-> <<"d", "l", "u">>]

DIRECTION_MOVE ==
    [u |-> <<0, 1>>, r |-> <<1, 0>>, d |-> <<0, -1>>, l |-> <<-1, 0>>,
     up |-> <<0, 1>>, right |-> <<1, 0>>, down |-> <<0, -1>>, left |-> <<-1, 0>>]

DIRECTION_REVERSE ==
    [u |-> "d", r |-> "l", d |-> "u", l |-> "r",
     up |-> "d", right |-> "l", down |-> "u", left |-> "r"]

\* 1 / TRAIN_SCORE_MULTIPLIER
TRAIN_SCORE_DIVISOR == 30

----------------------------------------------------------------------------
(* maze.py *)

\* x & mask != 0, for a one-bit mask
BitAnd(code, mask) == (code \div mask) % 2 = 1

dir_int ==
    [u |-> 1, r |-> 2, d |-> 4, l |-> 8, up |-> 1, right |-> 2, down |-> 4, left |-> 8]

\* self.walls.shape
Shape(walls) == <<Len(walls), IF Len(walls) = 0 THEN 0 ELSE Len(walls[1])>>

\* numpy indexing self.walls[tuple(cell)]: an index i on an axis of length n
\* is accepted iff -n <= i < n, and a negative i counts from the end.
IndexOK(walls, cell) ==
    /\ -Shape(walls)[1] <= cell[1] /\ cell[1] < Shape(walls)[1]
    /\ -Shape(walls)[2] <= cell[2] /\ cell[2] < Shape(walls)[2]

WallsAt(walls, cell) ==
    walls[(cell[1] % Shape(walls)[1]) + 1][(cell[2] % Shape(walls)[2]) + 1]

\* Maze.is_permissible, for a cell numpy accepts (IndexError otherwise: the
\* callers test IndexOK first).  The direction is always a key of dir_int.
is_permissible(walls, cell, direction) ==
    BitAnd(WallsAt(walls, cell), dir_int[direction])

\* Maze.dist_to_wall.  The result is [raised, distance, cells]: raised is
\* TRUE when is_permissible raised IndexError, cells are the cells the loop
\* handed to is_permissible.
RECURSIVE dist_walk(_, _, _, _, _)
dist_walk(walls, current_cell, direction, distance, cells) ==
    IF ~IndexOK(walls, current_cell)
    THEN [raised |-> TRUE, distance |-> distance,
          cells |-> cells \cup {current_cell}]
    ELSE IF is_permissible(walls, current_cell, direction)
    THEN dist_walk(walls,
                   <<current_cell[1] + DIRECTION_MOVE[direction][1],
                     current_cell[2] + DIRECTION_MOVE[direction][2]>>,
                   direction, distance + 1, cells \cup {current_cell})
    ELSE [raised |-> FALSE, distance |-> distance,
          cells |-> cells \cup {current_cell}]

dist_to_wall(walls, cell, direction) ==
    dist_walk(walls, cell, direction, 0, {})

\* Maze._validate_maze: the list wall_errors, in the order the two loop
\* nests append to it.  An entry is <<<<x, y>>, "v" or "h">>.
RECURSIVE VerticalErrors(_, _, _)
VerticalErrors(m, x, y) ==
    IF x >= m.dim - 1 THEN <<>>
    ELSE IF y >= m.dim THEN VerticalErrors(m, x + 1, 0)
    ELSE (IF BitAnd(m.walls[x + 1][y + 1], 2) # BitAnd(m.walls[x + 2][y + 1], 8)
          THEN << <<(<<x, y>>), "v">> >> ELSE <<>>)
         \o VerticalErrors(m, x, y + 1)

RECURSIVE HorizontalErrors(_, _, _)
HorizontalErrors(m, y, x) ==
    IF y >= m.dim - 1 THEN <<>>
    ELSE IF x >= m.dim THEN HorizontalErrors(m, y + 1, 0)
    ELSE (IF BitAnd(m.walls[x + 1][y + 1], 1) # BitAnd(m.walls[x + 1][y + 2], 4)
          THEN << <<(<<x, y>>), "h">> >> ELSE <<>>)
         \o HorizontalErrors(m, y, x + 1)

\* _validate_maze without its second loop nest
validate_maze_vertical(m) ==
    IF m.dim % 2 # 0
    THEN [raised |-> "dimensions", errors |-> <<>>]
    ELSE IF Shape(m.walls) # <<m.dim, m.dim>>
    THEN [raised |-> "shape", errors |-> <<>>]
    ELSE LET errs == VerticalErrors(m, 0, 0)
         IN  [raised |-> IF errs # <<>> THEN "consistency" ELSE "none",
              errors |-> errs]

\* The outcome of _validate_maze: which exception it raises, if any, and
\* the inconsistent edges it printed.
validate_maze(m) ==
    IF m.dim % 2 # 0
    THEN [raised |-> "dimensions", errors |-> <<>>]
    ELSE IF Shape(m.walls) # <<m.dim, m.dim>>
    THEN [raised |-> "shape", errors |-> <<>>]
    ELSE LET errs == VerticalErrors(m, 0, 0) \o HorizontalErrors(m, 0, 0)
         IN  [raised |-> IF errs # <<>> THEN "consistency" ELSE "none",
              errors |-> errs]

----------------------------------------------------------------------------
(* tester.py: the helpers of run_simulation *)

\* perform_rotation turning about on a rotation it should reject
perform_rotation_about(current_heading, rotation) ==
    IF rotation = -90 THEN DIRECTION_SENSORS[current_heading][1]
    ELSE IF rotation = 90 THEN DIRECTION_SENSORS[current_heading][3]
    ELSE IF rotation = 0 THEN current_heading
    ELSE DIRECTION_REVERSE[current_heading]

\* perform_rotation turning right for a left turn too
perform_rotation_right(current_heading, rotation) ==
    IF rotation = -90 THEN DIRECTION_SENSORS[current_heading][3]
    ELSE IF rotation = 90 THEN DIRECTION_SENSORS[current_heading][3]
    ELSE IF rotation = 0 THEN current_heading
    ELSE current_heading

\* perform_rotation
perform_rotation(current_heading, rotation) ==
    IF rotation = -90 THEN DIRECTION_SENSORS[current_heading][1]
    ELSE IF rotation = 90 THEN DIRECTION_SENSORS[current_heading][3]
    ELSE IF rotation = 0 THEN current_heading
    ELSE current_heading

\* max(min(int(movement), 3), -3); the agent's movement is an integer
MOVE_LIMIT == 3

\* The movement left as the agent gave it
ClampMovementNone(movement) == movement

ClampMovement(movement) ==
    IF movement > MOVE_LIMIT THEN MOVE_LIMIT
    ELSE IF movement < -MOVE_LIMIT THEN -MOVE_LIMIT
    ELSE movement

\* The while loop of move_robot.  The result is [location, moved, raised,
\* entered]: location is robot_position['location'] when the loop is left,
\* moved is the value returned, raised is TRUE when is_permissible raised
\* IndexError, entered is the list of cells the unit steps entered.
RECURSIVE move_walk(_, _, _, _, _)
move_walk(walls, location, heading, movement, entered) ==
    IF movement = 0
    THEN [location |-> location, moved |-> TRUE, raised |-> FALSE,
          entered |-> entered]
    ELSE LET travel == IF movement > 0 THEN heading
                       ELSE DIRECTION_REVERSE[heading]
             next == <<location[1] + DIRECTION_MOVE[travel][1],
                       location[2] + DIRECTION_MOVE[travel][2]>>
         IN  IF ~IndexOK(walls, location)
             THEN [location |-> location, moved |-> FALSE, raised |-> TRUE,
                   entered |-> entered]
             ELSE IF is_permissible(walls, location, travel)
             THEN move_walk(walls, next, heading,
                            IF movement > 0 THEN movement - 1 ELSE movement + 1,
                            Append(entered, next))
             ELSE [location |-> location, moved |-> FALSE, raised |-> FALSE,
                   entered |-> entered]

move_robot(walls, position, movement) ==
    move_walk(walls, position.location, position.heading,
              ClampMovement(movement), <<>>)

\* is_goal_reached
goal_range(maze_dim) == {maze_dim \div 2 - 1, maze_dim \div 2}

\* The goal test with its range one cell too far
is_goal_reached_shifted(location, maze_dim) ==
    /\ location[1] \in {maze_dim \div 2, maze_dim \div 2 + 1}
    /\ location[2] \in {maze_dim \div 2, maze_dim \div 2 + 1}

is_goal_reached(location, maze_dim) ==
    location[1] \in goal_range(maze_dim) /\ location[2] \in goal_range(maze_dim)

\* sum(runtimes)
RECURSIVE SumSeq(_)
SumSeq(s) == IF s = <<>> THEN 0 ELSE Head(s) + SumSeq(Tail(s))

\* The list comprehension of run_simulation, lines 59-60: the three
\* dist_to_wall results, left, front, right of the heading.
SensorWalks(m, position) ==
    [i \in 1..3 |->
        dist_to_wall(m.walls, position.location,
                     DIRECTION_SENSORS[position.heading][i])]

SensingRaises(m, position) ==
    \E i \in 1..3 : SensorWalks(m, position)[i].raised

sensor_readings(m, position) ==
    [i \in 1..3 |-> SensorWalks(m, position)[i].distance]

----------------------------------------------------------------------------
(* robot.py: the reference agent *)

headings == <<"up", "right", "down", "left">>

\* headings.index(h)
HeadingIndex(h) == CHOOSE i \in 1..4 : headings[i] = h

\* get_new_heading counting the rotation steps the other way round
get_new_heading_mirrored(heading, rotation) ==
    headings[((HeadingIndex(heading) - 1 - rotation \div 90) % 4) + 1]

\* Robot.get_new_heading
get_new_heading(heading, rotation) ==
    headings[((HeadingIndex(heading) - 1 + rotation \div 90) % 4) + 1]

\* Robot.update_position
update_position(r, rotation, movement) ==
    LET h == get_new_heading(r.heading, rotation)
        loc == IF movement > 0
               THEN CASE h = "up"    -> <<r.location[1], r.location[2] + 1>>
                      [] h = "right" -> <<r.location[1] + 1, r.location[2]>>
                      [] h = "down"  -> <<r.location[1], r.location[2] - 1>>
                      [] h = "left"  -> <<r.location[1] - 1, r.location[2]>>
               ELSE r.location
    IN  [heading |-> h, location |-> loc, visited |-> r.visited \cup {loc}]

\* The decision of Robot.next_move: the pair it returns
decide(sensors) ==
    IF sensors[2] > 0 THEN [reset |-> FALSE, rotation |-> 0, movement |-> 1]
    ELSE IF sensors[1] > 0 THEN [reset |-> FALSE, rotation |-> -90, movement |-> 1]
    ELSE IF sensors[3] > 0 THEN [reset |-> FALSE, rotation |-> 90, movement |-> 1]
    ELSE [reset |-> FALSE, rotation |-> 90, movement |-> 0]

\* Robot.next_move: the robot after the call
next_move(r, sensors) ==
    update_position(r, decide(sensors).rotation, decide(sensors).movement)

\* Robot.__init__
NewRobot == [heading |-> "up", location |-> <<0, 0>>, visited |-> {<<0, 0>>}]

----------------------------------------------------------------------------
(* The maze files the model is run on *)

\* The wall code of cell (x, y) of an n x n grid whose interior is open but
\* for the walls in closed (an entry <<x, y, "u" or "r">> closes the edge
\* between (x, y) and its upper or right neighbour, on both sides), whose
\* border is closed but for the outward bits in border (<<x, y, d>>), and
\* where the bits in torn (<<x, y, d>>) are cleared on that one side only.
OpenBit(n, closed, border, torn, x, y, d) ==
    LET nx == x + DIRECTION_MOVE[d][1]
        ny == y + DIRECTION_MOVE[d][2]
        edge == CASE d = "u" -> <<x, y, "u">>
                  [] d = "d" -> <<x, y - 1, "u">>
                  [] d = "r" -> <<x, y, "r">>
                  [] d = "l" -> <<x - 1, y, "r">>
    IN  /\ <<x, y, d>> \notin torn
        /\ IF nx \in 0..(n - 1) /\ ny \in 0..(n - 1)
           THEN edge \notin closed
           ELSE <<x, y, d>> \in border

WallCode(n, closed, border, torn, x, y) ==
    (IF OpenBit(n, closed, border, torn, x, y, "u") THEN 1 ELSE 0)
    + (IF OpenBit(n, closed, border, torn, x, y, "r") THEN 2 ELSE 0)
    + (IF OpenBit(n, closed, border, torn, x, y, "d") THEN 4 ELSE 0)
    + (IF OpenBit(n, closed, border, torn, x, y, "l") THEN 8 ELSE 0)

\* Every outward bit of the border of an n x n grid
AllBorder(n) ==
    {<<x, y, d>> \in (0..(n - 1)) \X (0..(n - 1)) \X {"u", "r", "d", "l"} :
        \/ x + DIRECTION_MOVE[d][1] \notin 0..(n - 1)
        \/ y + DIRECTION_MOVE[d][2] \notin 0..(n - 1)}

\* A file name stands for the file's content: the dimension on its first
\* line, the shape of the matrix that follows, and the walls.
FileName(n, rows, cols, closed, border, torn) ==
    [n |-> n, rows |-> rows, cols |-> cols,
     closed |-> closed, border |-> border, torn |-> torn]

\* Accepted 4 x 4 mazes.
\* Boxed: a closed border, with a dead end at (0, 1).
Boxed == FileName(4, 4, 4, {<<0, 1, "u">>, <<0, 1, "r">>}, {}, {})

\* AllOpen: every cell is 15.
AllOpen == FileName(4, 4, 4, {}, AllBorder(4), {})

\* Breached: the border is open below the origin, where numpy's negative
\* indices wrap around to the far side, and to the right of (3, 3), past
\* the last index.
Breached == FileName(4, 4, 4, {}, {<<0, 0, "d">>, <<3, 3, "r">>}, {})

\* A 2 x 2 maze: every cell is a goal cell.
Small == FileName(2, 2, 2, {}, {}, {})

\* Rejected files: an odd dimension, a matrix of the wrong shape, and bits
\* cleared on one side of an edge only.
OddFile == FileName(3, 3, 3, {}, {}, {})

ShapeFile == FileName(4, 2, 2, {}, {}, {})

TornOnce == FileName(4, 4, 4, {}, {}, {<<1, 1, "r">>})

TornThrice ==
    FileName(4, 4, 4, {}, {}, {<<1, 1, "r">>, <<2, 2, "d">>, <<0, 3, "l">>})

MazeFiles ==
    {Boxed, AllOpen, Breached, Small, OddFile, ShapeFile, TornOnce, TornThrice}

\* The reference agent is also run on a closed border with any of four
\* interior walls closed.
InnerWalls == {<<0, 1, "u">>, <<0, 1, "r">>, <<0, 0, "r">>, <<1, 0, "u">>}

\* StartPen: the origin is a dead end but for the border bit below it
StartPen == FileName(4, 4, 4, {<<0, 0, "u">>, <<0, 0, "r">>}, {<<0, 0, "d">>}, {})

\* SmallBreached: a 2 x 2 maze with a dead end at (0, 1) and the border
\* open below the origin
SmallBreached == FileName(2, 2, 2, {<<0, 1, "r">>}, {<<0, 0, "d">>}, {})

RobotMazeFiles ==
    MazeFiles \cup {StartPen, SmallBreached}
    \cup {FileName(4, 4, 4, c, {}, {}) : c \in SUBSET InnerWalls}

\* Files for Maze.__init__ alone: a closed 4 x 4 grid with any of these
\* bits cleared on one side (two of them are the two sides of one edge, two
\* are border bits, which are closed already).
TornBits ==
    {<<1, 1, "r">>, <<2, 1, "l">>, <<2, 2, "d">>, <<0, 0, "u">>,
     <<3, 2, "l">>, <<3, 0, "u">>, <<0, 3, "l">>, <<3, 3, "u">>}

TornFiles == {FileName(4, 4, 4, {}, {}, t) : t \in SUBSET TornBits}

\* One line of the file: the codes of column x, by increasing y
RECURSIVE FileLine(_, _, _)
FileLine(f, x, cols) ==
    IF cols = 0 THEN <<>>
    ELSE Append(FileLine(f, x, cols - 1),
                WallCode(f.n, f.closed, f.border, f.torn, x, cols - 1))

RECURSIVE FileLines(_, _)
FileLines(f, rows) ==
    IF rows = 0 THEN <<>>
    ELSE Append(FileLines(f, rows - 1), FileLine(f, rows - 1, f.cols))

\* Maze.__init__, lines 31-37: dim and walls as read from the file
Files ==
    [f \in RobotMazeFiles \cup TornFiles |->
        [dim |-> f.n, walls |-> FileLines(f, f.rows)]]

----------------------------------------------------------------------------
(* tester.py: run_simulation *)

\* The agent's answer: (rotation, movement), or ('Reset', 'Reset') when
\* reset is TRUE (rotation and movement are then not read).
ResetAnswer == [reset |-> TRUE, rotation |-> 0, movement |-> 0]

Rotations == {-90, 0, 90, 180}

Answers ==
    {ResetAnswer}
    \cup [reset : {FALSE}, rotation : Rotations, movement : -MaxMove..MaxMove]

\* The last loop iteration: what it did (event), the agent's answer, and
\* whether "Movement blocked by a wall." was printed.
NoAnswer == [reset |-> FALSE, rotation |-> 0, movement |-> 0]

NoTrace == [event |-> "none", answer |-> NoAnswer, blocked |-> FALSE]

\* Before Maze.__init__ has run
NoMaze == [dim |-> 0, walls |-> <<>>]

InitOn(files) ==
    /\ pc = "load"
    /\ maze_filename \in files
    /\ maze = NoMaze
    /\ wall_errors = <<>>
    /\ run_number = 0
    /\ robot_position = [location |-> <<0, 0>>, heading |-> "up"]
    /\ total_time = 0
    /\ goal_reached = FALSE
    /\ runtimes = <<>>
    /\ final_score = <<>>
    /\ outcomes = <<>>
    /\ trace = NoTrace
    /\ robot = NewRobot

Init == InitOn(MazeFiles)

\* Lines 35-39: Maze(maze_filename), Robot(maze.dim), runtimes = []
Construct ==
    /\ pc = "load"
    /\ maze' = Files[maze_filename]
    /\ wall_errors' = validate_maze(maze').errors
    /\ pc' = IF validate_maze(maze').raised = "none" THEN "start" ELSE "failed"
    /\ UNCHANGED <<maze_filename, run_number, robot_position, total_time, goal_reached,
                   runtimes, final_score, outcomes, trace, robot>>

\* The head of the for loop with the position and the goal flag set once,
\* before the loop
StartRunKeepsPosition ==
    /\ pc = "start"
    /\ total_time' = 0
    /\ pc' = "loop"
    /\ UNCHANGED <<maze_filename, maze, wall_errors, run_number, robot_position,
                   goal_reached, runtimes, final_score, outcomes, trace, robot>>

\* Lines 41-48: the head of the for loop
StartRun ==
    /\ pc = "start"
    /\ robot_position' = [location |-> <<0, 0>>, heading |-> "up"]
    /\ total_time' = 0
    /\ goal_reached' = FALSE
    /\ pc' = "loop"
    /\ UNCHANGED <<maze_filename, maze, wall_errors, run_number, runtimes, final_score,
                   outcomes, trace, robot>>

\* Where control goes when the while loop of run run_number is left
AfterRun(n) == IF n = 0 THEN "start" ELSE "score"

NextRun(n) == IF n = 0 THEN 1 ELSE n

\* The time limit recording the elapsed steps as the run's runtime
TimeLimitRecords ==
    /\ pc = "loop"
    /\ total_time + 1 > MAX_TIME
    /\ total_time' = total_time + 1
    /\ pc' = AfterRun(run_number)
    /\ run_number' = NextRun(run_number)
    /\ trace' = [NoTrace EXCEPT !.event = "time_limit"]
    /\ outcomes' = Append(outcomes, "time_limit")
    /\ runtimes' = Append(runtimes, total_time)
    /\ UNCHANGED <<maze_filename, maze, wall_errors, robot_position, goal_reached,
                   final_score, robot>>

\* Lines 52-56: the iteration that exceeds MAX_TIME
TimeLimit ==
    /\ pc = "loop"
    /\ total_time + 1 > MAX_TIME
    /\ total_time' = total_time + 1
    /\ pc' = AfterRun(run_number)
    /\ run_number' = NextRun(run_number)
    /\ trace' = [NoTrace EXCEPT !.event = "time_limit"]
    /\ outcomes' = Append(outcomes, "time_limit")
    /\ UNCHANGED <<maze_filename, maze, wall_errors, robot_position, goal_reached, runtimes,
                   final_score, robot>>

\* Lines 52-60 when a dist_to_wall call raises IndexError: the exception
\* leaves run_simulation
SenseFault ==
    /\ pc = "loop"
    /\ total_time + 1 <= MAX_TIME
    /\ SensingRaises(maze, robot_position)
    /\ total_time' = total_time + 1
    /\ pc' = "crashed"
    /\ trace' = [NoTrace EXCEPT !.event = "sense_fault"]
    /\ UNCHANGED <<maze_filename, maze, wall_errors, run_number, robot_position, goal_reached,
                   runtimes, final_score, outcomes, robot>>

\* The reset condition without the goal test, and without any test
ResetAllowedFirstRun(n, reached) == n = 0

ResetAllowedAlways(n, reached) == TRUE

\* Line 71: the condition under which ('Reset', 'Reset') ends the run
ResetAllowed(n, reached) == n = 0 /\ reached

\* Line 90: the runtime appended when run 2 reaches the goal
RunTwoRuntime(t, recorded) == t - SumSeq(recorded)

\* Lines 69-92 for the answer the agent gave
Act(answer) ==
    LET turned == [robot_position EXCEPT
                      !.heading = perform_rotation(@, answer.rotation)]
    IN
    \E mv \in {move_robot(maze.walls, turned, answer.movement)} :
    LET at_goal == is_goal_reached(mv.location, maze.dim)
    IN
    IF answer.reset
    THEN IF ResetAllowed(run_number, goal_reached)
         THEN /\ runtimes' = Append(runtimes, total_time')
              /\ outcomes' = Append(outcomes, "reset")
              /\ pc' = AfterRun(run_number)
              /\ run_number' = NextRun(run_number)
              /\ trace' = [event |-> "reset_accepted", answer |-> answer,
                           blocked |-> FALSE]
              /\ UNCHANGED <<robot_position, goal_reached>>
         ELSE /\ trace' = [event |-> "reset_rejected", answer |-> answer,
                           blocked |-> FALSE]
              /\ UNCHANGED <<pc, run_number, robot_position, goal_reached,
                             runtimes, outcomes>>
    ELSE /\ robot_position' = [turned EXCEPT !.location = mv.location]
         /\ trace' = [event |-> IF mv.raised THEN "move_fault" ELSE "step",
                      answer |-> answer,
                      blocked |-> ~mv.raised /\ ~mv.moved]
         /\ IF mv.raised
            THEN /\ pc' = "crashed"
                 /\ UNCHANGED <<run_number, goal_reached, runtimes, outcomes>>
            ELSE /\ goal_reached' = (goal_reached \/ at_goal)
                 /\ IF at_goal /\ run_number = 1
                    THEN /\ runtimes' =
                             Append(runtimes,
                                    RunTwoRuntime(total_time', runtimes))
                         /\ outcomes' = Append(outcomes, "goal")
                         /\ pc' = AfterRun(run_number)
                    ELSE UNCHANGED <<pc, runtimes, outcomes>>
                 /\ UNCHANGED run_number

\* Lines 52-63: the iteration up to the agent's answer
Sensed ==
    /\ pc = "loop"
    /\ total_time + 1 <= MAX_TIME
    /\ ~SensingRaises(maze, robot_position)
    /\ total_time' = total_time + 1
    /\ UNCHANGED <<maze_filename, maze, wall_errors, final_score>>

\* The score printed as soon as one runtime is recorded
ScoreAnyRuntime ==
    /\ pc = "score"
    /\ final_score' =
        IF Len(runtimes) >= 1
        THEN <<TRAIN_SCORE_DIVISOR * runtimes[Len(runtimes)] + runtimes[1],
               TRAIN_SCORE_DIVISOR>>
        ELSE <<>>
    /\ pc' = "done"
    /\ UNCHANGED <<maze_filename, maze, wall_errors, run_number, robot_position,
                   total_time, goal_reached, runtimes, outcomes, trace, robot>>

\* Lines 94-97
Score ==
    /\ pc = "score"
    /\ final_score' =
        IF Len(runtimes) = 2
        THEN <<TRAIN_SCORE_DIVISOR * runtimes[2] + runtimes[1],
               TRAIN_SCORE_DIVISOR>>
        ELSE <<>>
    /\ pc' = "done"
    /\ UNCHANGED <<maze_filename, maze, wall_errors, run_number, robot_position, total_time,
                   goal_reached, runtimes, outcomes, trace, robot>>

\* A loop iteration with any agent
AnyStep ==
    /\ Sensed
    /\ \E answer \in Answers : Act(answer)
    /\ UNCHANGED robot

Next == Construct \/ StartRun \/ TimeLimit \/ SenseFault \/ AnyStep \/ Score

Spec == Init /\ [][Next]_vars

\* Maze(maze_filename) alone, on the files of the sessions and on the torn
\* files
InitMaze == InitOn(MazeFiles \cup TornFiles)

SpecMaze == InitMaze /\ [][Construct]_vars

\* run_simulation is one sequential call: while it has a next statement,
\* that statement is executed.  The sessions that are followed to their
\* end are those on the 2 x 2 maze, on the 4 x 4 maze that pens the robot
\* in (0, 0) and (0, 1), on the maze of all 15s and on a rejected file.
Pen == FileName(4, 4, 4, InnerWalls, {}, {})

FairMazeFiles == {Small, Pen, AllOpen, OddFile}

InitFair == InitOn(FairMazeFiles)

SpecFair == InitFair /\ [][Next]_vars /\ WF_vars(Next)

\* A loop iteration with the reference agent
RobotStep ==
    /\ Sensed
    /\ Act(decide(sensor_readings(maze, robot_position)))
    /\ robot' = next_move(robot, sensor_readings(maze, robot_position))

NextRobot == Construct \/ StartRun \/ TimeLimit \/ SenseFault \/ RobotStep \/ Score

InitRobot == InitOn(RobotMazeFiles)

SpecRobot == InitRobot /\ [][NextRobot]_vars

----------------------------------------------------------------------------
(* Properties *)

\* The goal region of an n x n maze: its four centre cells
CentreCells(n) == {n \div 2 - 1, n \div 2} \X {n \div 2 - 1, n \div 2}

GridCells(n) == (0..(n - 1)) \X (0..(n - 1))

Last(s) == s[Len(s)]

Abs(i) == IF i < 0 THEN -i ELSE i

Smaller(i, j) == IF i < j THEN i ELSE j

\* This step is a loop iteration in which the agent was asked
Asked == pc = "loop" /\ trace'.event \in {"reset_accepted", "reset_rejected",
                                          "step", "move_fault"}

ResetIssued == Asked /\ trace'.answer.reset

MoveIssued == Asked /\ ~trace'.answer.reset

\* The position the movement of this step starts from: the heading is the
\* one the rotation left
Turned == [robot_position EXCEPT !.heading = robot_position'.heading]

\* C1: whenever run 2 ends because the goal is reached, the runtime recorded
\* for run 2 is the number of steps of run 2 (total_time, which restarts at
\* 0 with the run), however run 1 ended.
C1_RunTwoRuntimeIsElapsed ==
    (outcomes # <<>> /\ Last(outcomes) = "goal") => Last(runtimes) = total_time

\* C2: a score is printed exactly when both runs recorded a runtime, run 1
\* by an accepted reset and run 2 by reaching the goal; the score s then
\* satisfies 30 * s = 30 * runtimes[1] + runtimes[0]; no score after a
\* time limit.
C2_ScoreIffBothRuns ==
    /\ pc # "done" => final_score = <<>>
    /\ pc = "done" =>
        /\ (final_score # <<>>) <=> (Len(runtimes) = 2)
        /\ (Len(runtimes) = 2) <=> (outcomes = <<"reset", "goal">>)
        /\ final_score # <<>> =>
              30 * final_score[1] =
                  final_score[2] * (30 * runtimes[2] + runtimes[1])
        /\ (\E i \in 1..Len(outcomes) : outcomes[i] = "time_limit")
              => final_score = <<>>

C2_Witness == pc = "done" /\ final_score # <<>>

\* C3: on the 4 x 4 maze of all 15s the reference agent's session ends with
\* both runtimes recorded, run 2 no longer than run 1, and the score
\* run 2 + run 1 / 30 printed.
C3_OpenMazeScores ==
    (maze_filename = AllOpen /\ pc \in {"done", "crashed"}) =>
        /\ outcomes = <<"reset", "goal">>
        /\ Len(runtimes) = 2
        /\ runtimes[2] <= runtimes[1]
        /\ final_score = <<30 * runtimes[2] + runtimes[1], 30>>

\* C4: a reset is accepted iff it is issued in run 1 with goal_reached set,
\* and goal_reached is set from the first step of the run that ended in the
\* goal region until the run ends, wherever the robot goes next.  An
\* accepted reset ends run 1, records total_time as the first runtime and
\* leads to the start of run 2; in run 2 a reset is rejected.
C4_ResetAccepted ==
    [][/\ ResetIssued =>
            IF run_number = 0 /\ goal_reached
            THEN /\ runtimes' = <<total_time + 1>>
                 /\ total_time' = total_time + 1
                 /\ pc' = "start"
                 /\ run_number' = 1
            ELSE /\ runtimes' = runtimes
                 /\ pc' = "loop"
                 /\ run_number' = run_number
       /\ (pc = "loop" /\ goal_reached /\ pc' = "loop") => goal_reached'
       /\ (pc = "loop" /\ ~goal_reached /\ goal_reached') =>
            /\ trace'.event = "step"
            /\ robot_position'.location \in CentreCells(maze.dim)
       /\ pc' = "loop" /\ pc = "start" => ~goal_reached'
      ]_vars

\* an accepted reset issued after the robot had left the goal region
C4_Witness ==
    /\ pc = "start"
    /\ outcomes = <<"reset">>
    /\ runtimes = <<total_time>>
    /\ maze.dim = 4
    /\ robot_position.location \notin CentreCells(4)

\* C5: a reset issued in run 1 before the goal was reached changes neither
\* the location, the heading, goal_reached nor runtimes, counts as one
\* step and does not end the run.
C5_EarlyResetIsCountedNoOp ==
    [][(ResetIssued /\ run_number = 0 /\ ~goal_reached) =>
            /\ robot_position' = robot_position
            /\ goal_reached' = goal_reached
            /\ runtimes' = runtimes
            /\ total_time' = total_time + 1
            /\ pc' = "loop"
            /\ run_number' = 0
      ]_vars

C5_Witness ==
    /\ trace.event = "reset_rejected"
    /\ run_number = 0
    /\ ~goal_reached
    /\ total_time > 1
    /\ robot_position.location # <<0, 0>>

\* C6, as claimed: a step whose rotation is none of -90, 0, 90 leaves the
\* heading and the location unchanged, whatever the movement, and the run
\* continues.
C6_InvalidRotationIsNoOp ==
    [][(MoveIssued /\ trace'.answer.rotation \notin {-90, 0, 90}) =>
            /\ robot_position' = robot_position
            /\ pc' = "loop"
      ]_vars

\* C6, amended: a step whose rotation is none of -90, 0, 90 leaves the
\* heading unchanged and applies the movement along it as a step with
\* rotation 0 would; the run goes on unless that movement ends it.
C6_InvalidRotationStillMoves ==
    [][(MoveIssued /\ trace'.answer.rotation \notin {-90, 0, 90}) =>
            LET mv == move_robot(maze.walls, robot_position,
                                 trace'.answer.movement)
            IN  /\ robot_position'.heading = robot_position.heading
                /\ robot_position'.location = mv.location
                /\ trace'.blocked = (~mv.raised /\ ~mv.moved)
                /\ \/ pc' = "loop"
                   \/ mv.raised
                   \/ /\ run_number = 1
                      /\ mv.location \in CentreCells(maze.dim)
      ]_vars

\* an invalid rotation whose movement took the robot from the origin
C6_Witness ==
    /\ trace.event = "step"
    /\ trace.answer.rotation \notin {-90, 0, 90}
    /\ total_time = 1
    /\ robot_position.heading = "up"
    /\ robot_position.location = <<0, 2>>

\* C7: from an in-grid cell, a movement m ends min(|clamp(m)|,
\* dist_to_wall(start, travel direction)) cells from the start in the
\* travel direction, the heading is the one the rotation left, and the
\* movement, blocked or not, does not end the run.
C7_MoveStopsAtWall ==
    [][(MoveIssued /\ robot_position.location \in GridCells(maze.dim)) =>
            LET m == trace'.answer.movement
                capped == IF m > 3 THEN 3 ELSE IF m < -3 THEN -3 ELSE m
                h == perform_rotation(robot_position.heading,
                                      trace'.answer.rotation)
                travel == IF capped >= 0 THEN h ELSE DIRECTION_REVERSE[h]
                wall == dist_to_wall(maze.walls, robot_position.location,
                                     travel)
                k == Smaller(Abs(capped), wall.distance)
            IN  /\ ~wall.raised
                /\ robot_position'.heading = h
                /\ robot_position'.location =
                      <<robot_position.location[1]
                            + k * DIRECTION_MOVE[travel][1],
                        robot_position.location[2]
                            + k * DIRECTION_MOVE[travel][2]>>
                /\ trace'.event = "step"
                /\ \/ pc' = "loop"
                   \/ /\ run_number = 1
                      /\ robot_position'.location \in CentreCells(maze.dim)
      ]_vars

\* C8: a movement above 3 has the outcome of a movement of 3, one below -3
\* that of -3, and no step displaces the robot by more than 3 cells.
C8_MovementClamped ==
    [][MoveIssued =>
            LET m == trace'.answer.movement
                mv == move_robot(maze.walls, Turned,
                                 IF m > 3 THEN 3 ELSE -3)
            IN  /\ (m > 3 \/ m < -3) =>
                    /\ robot_position'.location = mv.location
                    /\ trace'.blocked = (~mv.raised /\ ~mv.moved)
                    /\ (trace'.event = "move_fault") = mv.raised
                /\ Abs(robot_position'.location[1]
                           - robot_position.location[1])
                   + Abs(robot_position'.location[2]
                             - robot_position.location[2]) <= 3
      ]_vars

\* a movement of more than 3 that took the robot 3 cells up from the origin
C8_Witness ==
    /\ trace.event = "step"
    /\ trace.answer.movement > 3
    /\ ~trace.blocked
    /\ total_time = 1
    /\ robot_position.location = <<0, 3>>

\* C9: on an accepted maze, from every in-grid cell and in every direction,
\* dist_to_wall raises nothing, hands only in-grid cells to is_permissible
\* and returns at most dim - 1.
C9_SensorStaysInGrid ==
    pc \notin {"load", "failed"} =>
        \A cell \in GridCells(maze.dim), d \in {"u", "r", "d", "l"} :
            LET wall == dist_to_wall(maze.walls, cell, d)
            IN  /\ ~wall.raised
                /\ wall.cells \subseteq GridCells(maze.dim)
                /\ wall.distance <= maze.dim - 1

\* C10, as claimed: when a unit step of a movement, the last or an earlier
\* one, enters the goal region, goal_reached is set at the end of the
\* harness step and run 2 ends there.
C10_PassingMarksGoal ==
    [][(MoveIssued /\ trace'.event = "step") =>
            LET entered == move_robot(maze.walls, Turned,
                                      trace'.answer.movement).entered
            IN  (\E i \in 1..Len(entered) :
                        entered[i] \in CentreCells(maze.dim)) =>
                    /\ goal_reached'
                    /\ run_number = 1 => pc' = "score"
      ]_vars

\* C10, amended: goal_reached is set by the location at the end of the
\* harness step, after the whole movement: a step that ends in the goal
\* region sets it, and ends run 2 with a runtime recorded; a step that
\* ends elsewhere leaves it, and the run, as they were.
C10_EndingMarksGoal ==
    [][(MoveIssued /\ trace'.event = "step") =>
            IF robot_position'.location \in CentreCells(maze.dim)
            THEN /\ goal_reached'
                 /\ run_number = 1 =>
                        /\ pc' = "score"
                        /\ Len(runtimes') = Len(runtimes) + 1
                        /\ outcomes' = Append(outcomes, "goal")
            ELSE /\ goal_reached' = goal_reached
                 /\ pc' = "loop"
                 /\ runtimes' = runtimes
      ]_vars

\* run 2 ended by a step that finished in the goal region
C10_Witness ==
    /\ pc = "score"
    /\ trace.event = "step"
    /\ goal_reached
    /\ maze.dim = 4
    /\ robot_position.location \in CentreCells(4)

\* run_simulation has returned or an exception has left it
Ended == pc \in {"done", "failed", "crashed"}

\* C11: in a run the agent is asked only in iterations numbered 1 to
\* MAX_TIME (total_time restarts at 0 with the run and grows by one per
\* iteration), the iteration that exceeds MAX_TIME ends the run and appends
\* nothing to runtimes, a run starts only as run 1 or run 2, and every
\* session ends, whatever the agent answers.
C11_RunsEndWithinMaxTime ==
    /\ [][/\ pc = "loop" => total_time' = total_time + 1
          /\ pc = "start" => total_time' = 0
          /\ Asked => total_time' <= MAX_TIME
          /\ (pc = "loop" /\ total_time = MAX_TIME) =>
               /\ pc' # "loop"
               /\ runtimes' = runtimes
               /\ trace'.event = "time_limit"
          /\ pc = "start" => run_number = Len(outcomes) /\ run_number <= 1
         ]_vars
    /\ <>Ended

\* both runs ended by the time limit, nothing recorded
C11_Witness ==
    /\ pc = "done"
    /\ outcomes = <<"time_limit", "time_limit">>
    /\ total_time = MAX_TIME + 1
    /\ runtimes = <<>>

\* The edges two cells of an n x n grid share: <<cell, "v">> is the edge
\* between cell and its right neighbour, <<cell, "h">> the one between cell
\* and its upper neighbour
SharedEdges(n) ==
    {e \in GridCells(n) \X {"v", "h"} :
        IF e[2] = "v" THEN e[1][1] < n - 1 ELSE e[1][2] < n - 1}

\* The two cells of a shared edge give it the same bit
Agrees(m, e) ==
    LET x == e[1][1]
        y == e[1][2]
    IN  IF e[2] = "v"
        THEN BitAnd(m.walls[x + 1][y + 1], 2) = BitAnd(m.walls[x + 2][y + 1], 8)
        ELSE BitAnd(m.walls[x + 1][y + 1], 1) = BitAnd(m.walls[x + 1][y + 2], 4)

\* C12: for a file of even dimension and matching shape, construction
\* succeeds iff the two cells of every shared edge agree on it, and when it
\* fails the edges reported are exactly the shared edges they disagree on,
\* each reported once (so a single inconsistent edge gives one report,
\* naming it); the other files are rejected with no edge reported.
C12_EveryBadEdgeReportedOnce ==
    pc # "load" =>
        IF maze.dim % 2 = 0 /\ Shape(maze.walls) = <<maze.dim, maze.dim>>
        THEN LET bad == {e \in SharedEdges(maze.dim) : ~Agrees(maze, e)}
             IN  /\ (pc = "failed") <=> (bad # {})
                 /\ {wall_errors[i] : i \in 1..Len(wall_errors)} = bad
                 /\ Len(wall_errors) = Cardinality(bad)
        ELSE pc = "failed" /\ wall_errors = <<>>

\* the file with the right bit of (1, 1) cleared and the left bit of (2, 1)
\* set: one report, of that edge
C12_Witness ==
    /\ pc = "failed"
    /\ maze_filename = TornOnce
    /\ wall_errors = << <<(<<1, 1>>), "v">> >>

\* C13: on an accepted maze, when a movement took the robot k unit steps in
\* its travel direction, dist_to_wall from the cell it ended in, in the
\* reverse of that direction, raises nothing and returns at least k.
C13_ReverseDistanceCoversSteps ==
    [][MoveIssued =>
            LET m == trace'.answer.movement
                h == robot_position'.heading
                travel == IF m >= 0 THEN h ELSE DIRECTION_REVERSE[h]
                k == Len(move_robot(maze.walls, Turned, m).entered)
                back == dist_to_wall(maze.walls, robot_position'.location,
                                     DIRECTION_REVERSE[travel])
            IN  k > 0 => (~back.raised /\ back.distance >= k)
      ]_vars

\* C14: a run, the first or the second (after a reset or after the time
\* limit), begins with the ground truth at (0, 0) heading 'up', total_time
\* 0 and goal_reached false, whatever they were when the run before ended.
C14_RunBeginsAtOrigin ==
    [][/\ pc = "start" =>
            /\ pc' = "loop"
            /\ robot_position' = [location |-> <<0, 0>>, heading |-> "up"]
            /\ total_time' = 0
            /\ ~goal_reached'
       /\ (pc # "loop" /\ pc' = "loop") => pc = "start"
      ]_vars

\* run 2 at its beginning, after a run 1 that reached the goal of a 4 x 4
\* maze and was reset
C14_Witness ==
    /\ pc = "loop"
    /\ run_number = 1
    /\ outcomes = <<"reset">>
    /\ maze.dim = 4
    /\ total_time = 0
    /\ robot_position = [location |-> <<0, 0>>, heading |-> "up"]
    /\ ~goal_reached

\* C15: run 2 is active only after run 1 ended by an accepted reset; once
\* run 1 has ended by the time limit the agent is asked nothing more (the
\* last loop iteration stays the one that exceeded MAX_TIME) and runtimes
\* stays empty.
C15_TimeLimitIsTerminal ==
    /\ (pc = "loop" /\ run_number = 1) => outcomes = <<"reset">>
    /\ (outcomes # <<>> /\ outcomes[1] = "time_limit") =>
            /\ runtimes = <<>>
            /\ trace.event = "time_limit"

\* The direction a heading denotes, as a single letter
Cardinal ==
    [u |-> "u", r |-> "r", d |-> "d", l |-> "l",
     up |-> "u", right |-> "r", down |-> "d", left |-> "l"]

BeliefHeadings == {headings[i] : i \in 1..4}

\* C16: at all times the ground-truth heading is a key of the three
\* direction tables and denotes a cardinal direction, and so does whatever
\* perform_rotation makes of it, for a valid or an invalid rotation; the
\* agent's heading is one of its four headings, and so is whatever
\* get_new_heading makes of one of them.  Four rotations by +90, or -90
\* then +90, give a heading that denotes the direction they started from.
C16_HeadingsAreCardinal ==
    LET h == robot_position.heading
        R(x, r) == perform_rotation(x, r)
        G(x, r) == get_new_heading(x, r)
    IN  /\ h \in DOMAIN DIRECTION_SENSORS
        /\ h \in DOMAIN DIRECTION_MOVE
        /\ h \in DOMAIN DIRECTION_REVERSE
        /\ Cardinal[h] \in {"u", "r", "d", "l"}
        /\ \A r \in Rotations : R(h, r) \in DOMAIN Cardinal
        /\ Cardinal[R(R(R(R(h, 90), 90), 90), 90)] = Cardinal[h]
        /\ Cardinal[R(R(h, -90), 90)] = Cardinal[h]
        /\ robot.heading \in BeliefHeadings
        /\ \A b \in BeliefHeadings :
              /\ \A r \in {-90, 0, 90} : G(b, r) \in BeliefHeadings
              /\ G(G(G(G(b, 90), 90), 90), 90) = b
              /\ G(G(b, -90), 90) = b

\* the ground truth heading left after a left turn, then an invalid rotation
\* with a blocked movement, in run 2
C16_Witness ==
    /\ run_number = 1
    /\ pc = "loop"
    /\ robot_position.heading = "l"
    /\ trace.event = "step"
    /\ trace.answer.rotation = 180
    /\ trace.blocked

\* The last loop iteration of this run answered a dead end: the reference
\* agent answers (90, 0) to readings (0, 0, 0) only
TurnedAtDeadEnd ==
    /\ pc = "loop"
    /\ total_time \in 1..(MAX_TIME - 1)
    /\ trace.event = "step"
    /\ trace.answer = [reset |-> FALSE, rotation |-> 90, movement |-> 0]

\* C17: with the reference agent on an accepted maze, a step from a cell
\* whose three readings are 0 is answered (90, 0): the robot stays and
\* faces right of its heading.  When the direction behind the dead end
\* (now to the robot's right) is open, the next iteration of the run is a
\* step answered (90, 1), not blocked, that leaves the robot facing the
\* reverse of the heading it had in the dead end, one cell behind the
\* dead-end cell.  No answer rotates by 180.
C17_DeadEndTurnsRightTwice ==
    [][/\ Asked => trace'.answer.rotation \in {-90, 0, 90}
       /\ (Asked /\ sensor_readings(maze, robot_position) = <<0, 0, 0>>) =>
            /\ trace'.answer = [reset |-> FALSE, rotation |-> 90, movement |-> 0]
            /\ robot_position'.location = robot_position.location
            /\ robot_position'.heading =
                  DIRECTION_SENSORS[robot_position.heading][3]
       /\ LET was == DIRECTION_SENSORS[robot_position.heading][1]
              behind == DIRECTION_REVERSE[was]
          IN  (/\ TurnedAtDeadEnd
               /\ is_permissible(maze.walls, robot_position.location, behind))
              => /\ trace'.event = "step"
                 /\ trace'.answer =
                       [reset |-> FALSE, rotation |-> 90, movement |-> 1]
                 /\ ~trace'.blocked
                 /\ robot_position'.heading = behind
                 /\ robot_position'.location =
                       <<robot_position.location[1] + DIRECTION_MOVE[behind][1],
                         robot_position.location[2] + DIRECTION_MOVE[behind][2]>>
      ]_vars

\* No cell of the outer rows and columns has its outward bit set
ClosedBoundary(m) ==
    \A cell \in GridCells(m.dim), d \in {"u", "r", "d", "l"} :
        (<<cell[1] + DIRECTION_MOVE[d][1], cell[2] + DIRECTION_MOVE[d][2]>>
            \notin GridCells(m.dim))
        => ~is_permissible(m.walls, cell, d)

\* C18: with the reference agent on an accepted maze whose boundary is
\* closed, from the beginning of run 1 to its end the agent's location is
\* the ground-truth location, its heading denotes the direction of the
\* ground-truth heading, and no movement was reported blocked.
C18_BeliefTracksRunOne ==
    (/\ pc \in {"start", "loop"}
     /\ ClosedBoundary(maze)
     /\ run_number = 0 \/ (pc = "start" /\ Len(outcomes) = 1))
    => /\ robot.location = robot_position.location
       /\ Cardinal[robot.heading] = Cardinal[robot_position.heading]
       /\ ~trace.blocked

\* run 1 of the boxed maze after the dead end and a left turn at the origin
C18_Witness ==
    /\ maze_filename = Boxed
    /\ run_number = 0
    /\ total_time = 4
    /\ robot_position = [location |-> <<1, 0>>, heading |-> "r"]
    /\ robot.location = <<1, 0>>
    /\ robot.heading = "right"

\* C19: on an accepted maze the ground-truth location is a cell of the
\* grid, 0 <= x < dim and 0 <= y < dim, in every state of both runs.
C19_LocationInGrid ==
    pc \notin {"load", "failed"} => robot_position.location \in GridCells(maze.dim)

\* C20: the reference agent never answers ('Reset', 'Reset'); run 1 goes on
\* after goal_reached is set and is left only by the iteration that exceeds
\* MAX_TIME, after MAX_TIME answers; runtimes gets no entry in run 1.
C20_RunOneEndsByTimeLimit ==
    [][/\ Asked => ~trace'.answer.reset
       /\ (pc = "loop" /\ run_number = 0 /\ total_time < MAX_TIME) =>
            /\ Asked
            /\ pc' = "loop"
       /\ (pc = "loop" /\ run_number = 0 /\ total_time = MAX_TIME) =>
            /\ trace'.event = "time_limit"
            /\ pc' = "start"
       /\ run_number = 0 => runtimes' = <<>>
      ]_vars

====
